---- MODULE Spec2Model ----
(***************************************************************************)
(* win-path-convert: clipboard change detection and path rewriting.        *)
(*                                                                         *)
(* Texts are TLA+ strings; TLC evaluates Len, SubSeq, Head, Tail and \o on *)
(* them, so the string functions of the Go code are computed character by  *)
(* character. Three specifications share the module:                       *)
(*   Spec    the application loop (event-driven or polling) around         *)
(*           processClipboardChange and HasChanged;                        *)
(*   SpecPC  the PathConverter methods applied to bounded texts;           *)
(*   SpecIO  single GetText / SetText calls against the OS clipboard.      *)
(***************************************************************************)
EXTENDS Integers, Sequences, FiniteSets, TLC

VARIABLES
    phase,            \* which specification runs and where its driver stands
    cfg,              \* config.Config fields used by the loop; build variant
    clip,             \* the OS clipboard: [has |-> BOOLEAN, text |-> STRING]
    lastContentHash,  \* ClipboardManager.lastContentHash
    pending,          \* WM_CLIPBOARDUPDATE messages queued for the listener
    pc,               \* PathConverter: excludePatterns, excludeRegexps
    arg,              \* argument of the call under examination
    ret,              \* result of the last call / last cycle
    hist              \* history of the run (ghost state for the properties)

vars == <<phase, cfg, clip, lastContentHash, pending, pc, arg, ret, hist>>

(***************************************************************************)
(* Bounds                                                                  *)
(***************************************************************************)
MaxBodyLen == 3     \* generated part of a text in SpecPC
MaxPending == 2     \* queued wake-ups in Spec
MaxCopies == 2      \* external copies in one run of Spec
MaxOpenAnswers == 4 \* OpenClipboard outcomes the environment has ready
MaxInflight == 2    \* cycles SpecRun lets be in flight before it stops counting
MaxShortenLen == 52 \* longest text handed to ShortenText in SpecUtil
MaxUpdates == 2     \* calls of UpdateExcludePatterns in one run of SpecUpd
NumProcs == 2       \* processes started with the same mutex name in SpecSingle

(***************************************************************************)
(* Strings                                                                 *)
(***************************************************************************)
Ch(s, i) == SubSeq(s, i, i)

BS == "\\"
QUOTE == "\""

HasPrefix(s, p) == Len(p) <= Len(s) /\ SubSeq(s, 1, Len(p)) = p

HasSuffix(s, p) == Len(p) <= Len(s) /\ SubSeq(s, Len(s) - Len(p) + 1, Len(s)) = p

Contains(s, c) == \E i \in 1..Len(s) : Ch(s, i) = c

RECURSIVE Count(_, _)
Count(s, c) ==
    IF s = "" THEN 0
    ELSE (IF Head(s) = c THEN 1 ELSE 0) + Count(Tail(s), c)

\* strings.ReplaceAll(s, old, new) for a one-character old
RECURSIVE ReplaceAll(_, _, _)
ReplaceAll(s, old, new) ==
    IF s = "" THEN ""
    ELSE (IF Head(s) = old THEN new ELSE Head(s)) \o ReplaceAll(Tail(s), old, new)

RECURSIVE TrimLeft(_, _)
TrimLeft(s, cut) ==
    IF s # "" /\ Head(s) \in cut THEN TrimLeft(Tail(s), cut) ELSE s

RECURSIVE TrimRight(_, _)
TrimRight(s, cut) ==
    IF s # "" /\ Ch(s, Len(s)) \in cut
    THEN TrimRight(SubSeq(s, 1, Len(s) - 1), cut)
    ELSE s

\* strings.Trim(s, cutset): every leading and trailing character of cutset
Trim(s, cut) == TrimRight(TrimLeft(s, cut), cut)

WhiteSpace == {" ", "\t", "\n", "\r"}

TrimSpace(s) == Trim(s, WhiteSpace)

\* strings.Split(s, sep) for a one-character sep
RECURSIVE Split(_, _)
Split(s, sep) ==
    IF ~Contains(s, sep) THEN <<s>>
    ELSE LET i == CHOOSE k \in 1..Len(s) :
                     Ch(s, k) = sep /\ \A j \in 1..(k - 1) : Ch(s, j) # sep
         IN  <<SubSeq(s, 1, i - 1)>> \o Split(SubSeq(s, i + 1, Len(s)), sep)

\* ASCII 32..95 and 97..126 (the grave accent, 96, is not used by the model)
PrintableLo ==
    " !\"#$%&'()*+,-./0123456789:;<=>?@ABCDEFGHIJKLMNOPQRSTUVWXYZ[\\]^_"

PrintableHi == "abcdefghijklmnopqrstuvwxyz{|}~"

\* the ASCII table of the characters the model uses
Ascii ==
    [c \in {Ch(PrintableLo, i) : i \in 1..Len(PrintableLo)} |->
        31 + (CHOOSE i \in 1..Len(PrintableLo) : Ch(PrintableLo, i) = c)]
    @@ [c \in {Ch(PrintableHi, i) : i \in 1..Len(PrintableHi)} |->
        96 + (CHOOSE i \in 1..Len(PrintableHi) : Ch(PrintableHi, i) = c)]
    @@ [c \in {"\t"} |-> 9] @@ [c \in {"\n"} |-> 10] @@ [c \in {"\r"} |-> 13]

\* the byte of an ASCII character
Ord(c) == Ascii[c]

Chr(b) == IF b < 96 THEN Ch(PrintableLo, b - 31) ELSE Ch(PrintableHi, b - 96)

IsUpper(c) == Ascii[c] \in 65..90

IsLetter(c) == Ascii[c] \in 65..90 \/ Ascii[c] \in 97..122

LowerTable == [c \in DOMAIN Ascii |-> IF Ascii[c] \in 65..90 THEN Chr(Ascii[c] + 32) ELSE c]

LowerCh(c) == LowerTable[c]

RECURSIVE ToLower(_)
ToLower(s) == IF s = "" THEN "" ELSE LowerCh(Head(s)) \o ToLower(Tail(s))

RECURSIVE StrsUpTo(_, _)
StrsUpTo(alphabet, n) ==
    IF n = 0 THEN {""}
    ELSE LET shorter == StrsUpTo(alphabet, n - 1)
         IN  shorter \cup {s \o c : s \in shorter, c \in alphabet}

(***************************************************************************)
(* pathconv: exclude patterns                                              *)
(***************************************************************************)
\* The glob is turned into a regular expression text exactly as the code
\* does it: dots escaped first, then each star widened, then anchored.
GlobToRegex(pattern) ==
    "^" \o ReplaceAll(ReplaceAll(pattern, ".", "\\."), "*", ".*") \o "$"

\* regexp.Compile fails on an unbalanced group or class; the patterns of the
\* model use no other metacharacter than the ones GlobToRegex introduces.
RECURSIVE Balance(_, _, _)
Balance(re, open, close) ==
    IF re = "" THEN 0
    ELSE (IF Head(re) = open THEN 1 ELSE IF Head(re) = close THEN -1 ELSE 0)
         + Balance(Tail(re), open, close)

Compiles(re) == Balance(re, "(", ")") = 0 /\ Balance(re, "[", "]") = 0

\* The expressions GlobToRegex yields for the patterns of the model are
\* made of literals, '.', a backslash escaping the punctuation after it,
\* and '*' after one of these.  The atom at the head of re:
AtomLen(re) == IF Head(re) = BS /\ Len(re) >= 2 THEN 2 ELSE 1

\* as in Go's regexp, '.' does not match a newline
AtomMatches(re, c) ==
    IF Head(re) = BS /\ Len(re) >= 2 THEN c = Ch(re, 2)
    ELSE IF Head(re) = "." THEN c # "\n"
    ELSE c = Head(re)

\* Matching of the body of an anchored expression against the whole of s
RECURSIVE MatchHere(_, _)
MatchHere(re, s) ==
    IF re = "" THEN s = ""
    ELSE LET n == AtomLen(re)
         IN  IF Len(re) > n /\ Ch(re, n + 1) = "*"
             THEN \E k \in 0..Len(s) :
                     /\ \A j \in 1..k : AtomMatches(re, Ch(s, j))
                     /\ MatchHere(SubSeq(re, n + 2, Len(re)),
                                  SubSeq(s, k + 1, Len(s)))
             ELSE /\ s # ""
                  /\ AtomMatches(re, Head(s))
                  /\ MatchHere(SubSeq(re, n + 1, Len(re)), Tail(s))

\* regex.MatchString(text) for a compiled '^...$'
MatchString(re, text) == MatchHere(SubSeq(re, 2, Len(re) - 1), text)

RECURSIVE compileStopAtFailure(_, _)
compileStopAtFailure(patterns, regexps) ==
    IF patterns = <<>> THEN regexps
    ELSE LET re == GlobToRegex(Head(patterns))
         IN  IF Compiles(re)
             THEN compileStopAtFailure(Tail(patterns), Append(regexps, re))
             ELSE regexps

\* compileExcludePatterns: appends to regexps the expression of every
\* pattern that compiles, in order; a failing pattern is skipped.
RECURSIVE compileExcludePatterns(_, _)
compileExcludePatterns(patterns, regexps) ==
    IF patterns = <<>> THEN regexps
    ELSE LET re == GlobToRegex(Head(patterns))
         IN  compileExcludePatterns(Tail(patterns),
                 IF Compiles(re) THEN Append(regexps, re) ELSE regexps)

NewPathConverter(excludePatterns) ==
    [excludePatterns |-> excludePatterns,
     excludeRegexps  |-> compileExcludePatterns(excludePatterns, <<>>)]

\* envVarPattern = `%[^%]+%`, unanchored
envVarPatternMatch(text) ==
    \E i \in 1..Len(text) : \E j \in (i + 2)..Len(text) :
        /\ Ch(text, i) = "%"
        /\ Ch(text, j) = "%"
        /\ \A k \in (i + 1)..(j - 1) : Ch(text, k) # "%"

ProtocolPrefixes == {"http://", "https://", "mailto:", "ftp://", "file://"}

HasProtocolPrefix(text) ==
    \E lowerText \in {ToLower(text)} :
        \E p \in ProtocolPrefixes : HasPrefix(lowerText, p)

MatchesUserPattern(p, text) ==
    \E i \in 1..Len(p.excludeRegexps) : MatchString(p.excludeRegexps[i], text)

\* the %...% branch of isExcluded: TRUE when an odd-indexed (0-based) part
\* of the split on '%', the last part excepted, contains a backslash
EnvVarBranch(text) ==
    LET parts == Split(text, "%")
    IN  \E i \in 2..(Len(parts) - 1) : i % 2 = 0 /\ Contains(parts[i], BS)

isExcludedCaseSensitive(p, text) ==
    IF \E q \in ProtocolPrefixes : HasPrefix(text, q) THEN TRUE
    ELSE IF MatchesUserPattern(p, text) THEN TRUE
    ELSE IF Count(text, "%") >= 2 /\ envVarPatternMatch(text)
         THEN EnvVarBranch(text)
    ELSE FALSE

isExcludedEnvInverted(p, text) ==
    IF HasProtocolPrefix(text) THEN TRUE
    ELSE IF MatchesUserPattern(p, text) THEN TRUE
    ELSE IF Count(text, "%") >= 2 /\ envVarPatternMatch(text)
         THEN ~EnvVarBranch(text)
    ELSE FALSE

isExcluded(p, text) ==
    IF HasProtocolPrefix(text) THEN TRUE
    ELSE IF MatchesUserPattern(p, text) THEN TRUE
    ELSE IF Count(text, "%") >= 2 /\ envVarPatternMatch(text)
         THEN EnvVarBranch(text)
    ELSE FALSE

DriveShape(trimmed) ==
    /\ Len(trimmed) >= 3
    /\ Ch(trimmed, 2) = ":"
    /\ Ch(trimmed, 3) \in {BS, "/"}

ShouldConvertDriveOnly(p, text) ==
    IF text = "" THEN FALSE
    ELSE LET trimmed == Trim(text, {QUOTE})
         IN  IF ~Contains(trimmed, BS) THEN FALSE
             ELSE IF isExcluded(p, trimmed) THEN FALSE
             ELSE DriveShape(trimmed)

ShouldConvertNoGate(p, text) ==
    IF text = "" THEN FALSE
    ELSE LET trimmed == Trim(text, {QUOTE})
         IN  IF isExcluded(p, trimmed) THEN FALSE
             ELSE IF DriveShape(trimmed) THEN TRUE
             ELSE IF HasPrefix(trimmed, "\\\\") THEN TRUE
             ELSE Contains(trimmed, BS)

ShouldConvertShapeOnly(p, text) ==
    IF text = "" THEN FALSE
    ELSE LET trimmed == Trim(text, {QUOTE})
         IN  IF ~Contains(trimmed, BS) THEN FALSE
             ELSE IF isExcluded(p, trimmed) THEN FALSE
             ELSE Len(trimmed) >= 3 /\ Ch(trimmed, 2) = ":" /\ Ch(trimmed, 3) = "/"

ShouldConvertShapeRejects(p, text) ==
    IF text = "" THEN FALSE
    ELSE LET trimmed == Trim(text, {QUOTE})
         IN  IF ~Contains(trimmed, BS) THEN FALSE
             ELSE IF isExcluded(p, trimmed) THEN FALSE
             ELSE DriveShape(trimmed) \/ HasPrefix(trimmed, "\\\\")

ShouldConvert(p, text) ==
    IF text = "" THEN FALSE
    ELSE LET trimmed == Trim(text, {QUOTE})
         IN  IF ~Contains(trimmed, BS) THEN FALSE
             ELSE IF isExcluded(p, trimmed) THEN FALSE
             ELSE IF DriveShape(trimmed) THEN TRUE
             ELSE IF HasPrefix(trimmed, "\\\\") THEN TRUE
             ELSE IF Contains(trimmed, BS) THEN TRUE
             ELSE FALSE

RECURSIVE ReplaceFirst(_, _, _)
ReplaceFirst(s, old, new) ==
    IF s = "" THEN ""
    ELSE IF Head(s) = old THEN new \o Tail(s)
    ELSE Head(s) \o ReplaceFirst(Tail(s), old, new)

ConvertFirstOnly(text) ==
    LET hasQuotes == HasPrefix(text, QUOTE) /\ HasSuffix(text, QUOTE)
        content   == Trim(text, {QUOTE})
        converted == ReplaceFirst(content, BS, "/")
    IN  IF converted = content THEN text
        ELSE IF hasQuotes THEN QUOTE \o converted \o QUOTE
        ELSE converted

Convert(text) ==
    LET hasQuotes == HasPrefix(text, QUOTE) /\ HasSuffix(text, QUOTE)
        content   == Trim(text, {QUOTE})
        converted == ReplaceAll(content, BS, "/")
    IN  IF converted = content THEN text
        ELSE IF hasQuotes THEN QUOTE \o converted \o QUOTE
        ELSE converted

UpdateExcludePatterns(p, patterns) ==
    [excludePatterns |-> patterns,
     excludeRegexps  |-> compileExcludePatterns(patterns, <<>>)]

DefaultExcludePatterns == <<"http://*", "https://*", "mailto:*", "ftp://*", "file://*">>

(***************************************************************************)
(* clipboard: QuickHash (FNV-1a, 64 bit, hexadecimal)                      *)
(***************************************************************************)
\* A 64-bit value is a tuple of 8 bytes, least significant first.
FnvOffset64 == <<37, 35, 34, 132, 228, 156, 242, 203>>   \* 0xcbf29ce484222325

FnvPrimeLow == 435       \* the prime is 2^40 + 0x1b3
FnvPrimeShift == 5       \* 2^40 is a shift by five bytes

RECURSIVE Xor8(_, _, _)
Xor8(a, b, bits) ==
    IF bits = 0 THEN 0
    ELSE ((a + b) % 2) + 2 * Xor8(a \div 2, b \div 2, bits - 1)

\* h * prime modulo 2^64, byte by byte with carry
RECURSIVE MulPrime(_, _, _, _)
MulPrime(h, i, carry, acc) ==
    IF i > 8 THEN acc
    ELSE LET v == h[i] * FnvPrimeLow
                  + (IF i > FnvPrimeShift THEN h[i - FnvPrimeShift] ELSE 0)
                  + carry
         IN  MulPrime(h, i + 1, v \div 256, Append(acc, v % 256))

\* one round per byte: xor into the low byte, then multiply
FnvRound(h, b) ==
    MulPrime([h EXCEPT ![1] = Xor8(h[1], b, 8)], 1, 0, <<>>)

RECURSIVE Fnv1a(_, _, _)
Fnv1a(h, s, i) ==
    IF i > Len(s) THEN h
    ELSE LET next == FnvRound(h, Ord(Ch(s, i)))
         IN  \* the test has TLC compute the round before it goes on
             IF Len(next) = 8 THEN Fnv1a(next, s, i + 1) ELSE <<>>

HexDigits == "0123456789abcdef"

HexByte(b) == Ch(HexDigits, (b \div 16) + 1) \o Ch(HexDigits, (b % 16) + 1)

\* hex.EncodeToString of the big-endian sum
RECURSIVE EncodeToString(_, _)
EncodeToString(h, i) ==
    IF i = 0 THEN "" ELSE HexByte(h[i]) \o EncodeToString(h, i - 1)

\* hasher.Write(text), hasher.Sum(nil), hex.EncodeToString
Sum64a(text) == EncodeToString(Fnv1a(FnvOffset64, text, 1), 8)

\* what other applications copy
ExternalTexts ==
    {"C:\\Users\\test\\file.txt", " C:\\a ", "\"C:\\a\\b\"", "%PATH%",
     "https://e.com/a\\b", " y ", ""}

\* the texts the loop meets: the copied ones, what Convert makes of them,
\* and both trimmed
LoopTexts ==
    LET onClip == ExternalTexts \cup {Convert(t) : t \in ExternalTexts}
    IN  onClip \cup {TrimSpace(t) : t \in onClip}

\* their sums, computed once
Sum64aTable == [t \in LoopTexts |-> Sum64a(t)]

QuickHashEmptyForEmpty(text) ==
    IF text = "" THEN "" ELSE Sum64aTable[text]

QuickHash(text) ==
    IF text \in DOMAIN Sum64aTable THEN Sum64aTable[text] ELSE Sum64a(text)

(***************************************************************************)
(* clipboard: GetText, SetText, HasChanged                                 *)
(***************************************************************************)
NoText == [has |-> FALSE, text |-> ""]

TextClip(t) == [has |-> TRUE, text |-> t]

RetryDelaysShort == <<0, 15>>

\* the delays slept before the attempts to open the clipboard
RetryDelays == <<0, 15, 30>>

\* What the operating system answers during one call: the outcome of each
\* OpenClipboard attempt, should it be made, and which later step, if any,
\* fails (GetText: GlobalSize, GlobalLock; SetText: GlobalAlloc, GlobalLock,
\* SetClipboardData).
OpenAnswers == [1..MaxOpenAnswers -> BOOLEAN]

GetEnvs == [open : OpenAnswers, fail : {"none", "size", "lock"}]

SetEnvs == [open : OpenAnswers, fail : {"none", "alloc", "lock", "set"}]

\* the for loop over the delays: the index of the first attempt that opens
\* the clipboard, 0 when every attempt failed
RECURSIVE OpenLoop(_, _)
OpenLoop(env, i) ==
    IF i > Len(RetryDelays) THEN 0
    ELSE IF ~env.open[i] THEN OpenLoop(env, i + 1)
    ELSE i

DeferredClosesEveryAttempt(k) == IF k = 0 THEN Len(RetryDelays) ELSE k

\* the deferred calls of CloseClipboard that run when the function returns,
\* k being the attempt that opened the clipboard, 0 when none did: the
\* defer statement comes after the continue of a failed open, and every
\* path after it returns
DeferredCloses(k) == IF k = 0 THEN 0 ELSE 1

\* opens: calls of OpenClipboard; closes: calls of CloseClipboard;
\* slept: the delays before the attempts made
IoTrace(env) ==
    LET k == OpenLoop(env, 1)
        n == IF k = 0 THEN Len(RetryDelays) ELSE k
    IN  [opens |-> n, closes |-> DeferredCloses(k),
         slept |-> SubSeq(RetryDelays, 1, n)]

GetText(c, env) ==
    LET tr == IoTrace(env)
    IN  IF OpenLoop(env, 1) = 0 THEN tr @@ [err |-> "open", text |-> ""]
        ELSE IF ~c.has THEN tr @@ [err |-> "nodata", text |-> ""]
        ELSE IF env.fail = "size" THEN tr @@ [err |-> "size", text |-> ""]
        ELSE IF env.fail = "lock" THEN tr @@ [err |-> "lock", text |-> ""]
        ELSE tr @@ [err |-> "nil", text |-> c.text]

\* EmptyClipboard runs right after the open, before anything can fail
SetText(c, text, env) ==
    LET tr == IoTrace(env)
    IN  IF OpenLoop(env, 1) = 0 THEN tr @@ [err |-> "open", clip |-> c]
        ELSE IF env.fail = "alloc" THEN tr @@ [err |-> "alloc", clip |-> NoText]
        ELSE IF env.fail = "lock" THEN tr @@ [err |-> "lock", clip |-> NoText]
        ELSE IF env.fail = "set" THEN tr @@ [err |-> "set", clip |-> NoText]
        ELSE tr @@ [err |-> "nil", clip |-> TextClip(text)]

\* returns (changed, err) and the new value of cm.lastContentHash
HasChanged(c, last, env) ==
    LET got == GetText(c, env)
    IN  IF got.err # "nil"
        THEN [changed |-> FALSE, err |-> got.err, last |-> last]
        ELSE LET currentHash == QuickHash(got.text)
                 changed     == currentHash # last
             IN  [changed |-> changed, err |-> "nil",
                  last |-> IF changed THEN currentHash ELSE last]

(***************************************************************************)
(* app: processClipboardChange                                             *)
(***************************************************************************)
\* cf.normalize tells the two versions of the function apart: the one that
\* hashes strings.TrimSpace(rawText) and the one that hashes rawText.
Fingerprint(cf, rawText) ==
    QuickHash(IF cf.normalize THEN TrimSpace(rawText) ELSE rawText)

\* returns the clipboard and the stored hash after the call, and which
\* return statement ended it
processClipboardChange(cf, p, c, last, genv, senv) ==
    IF ~cf.AutoConvert
    THEN [clip |-> c, last |-> last, out |-> "disabled", ioerr |-> FALSE]
    ELSE
    LET got == GetText(c, genv)
    IN  IF got.err # "nil"
        THEN [clip |-> c, last |-> last, out |-> "geterr", ioerr |-> TRUE]
        ELSE
        LET rawText     == got.text
            currentHash == Fingerprint(cf, rawText)
        IN  IF currentHash = last
            THEN [clip |-> c, last |-> last, out |-> "unchanged", ioerr |-> FALSE]
            ELSE IF ~ShouldConvert(p, rawText)
            THEN [clip |-> c, last |-> currentHash, out |-> "ineligible",
                  ioerr |-> FALSE]
            ELSE
            LET converted == Convert(rawText)
            IN  IF converted # rawText
                THEN LET set == SetText(c, converted, senv)
                     IN  IF set.err # "nil"
                         THEN [clip |-> set.clip, last |-> last,
                               out |-> "seterr", ioerr |-> TRUE]
                         ELSE [clip |-> set.clip, last |-> QuickHash(converted),
                               out |-> "written", ioerr |-> FALSE]
                ELSE [clip |-> c, last |-> currentHash, out |-> "noop",
                      ioerr |-> FALSE]

(***************************************************************************)
(* SpecPC: the PathConverter methods on bounded texts                      *)
(***************************************************************************)
BodyAlphabet == {"C", ":", BS, "/", QUOTE, "%"}

TextPrefixes ==
    {"", " ", "http://", "HTTPS://", "mailto:", "ftp://", "file://", "%A%",
     "C:/", "z:\\", QUOTE}

\* the texts of the converter's tests and of the documented scenarios, and
\* their neighbours
SampleTexts ==
    {"C:\\Users\\test\\file.txt", "\\\\server\\share\\file.txt",
     "https://example.com/a\\b", "C:\\a\\b\\c.tmp", "C:\\a.tmp\\b",
     "C:\\aXtmp", "C:\\a\nb.tmp", "\"C:\\a\\b\\c\"", "\"\"C:\\a\"\"",
     "%USERPROFILE%\\Documents", "%APP\\DATA%", "%PATH%"}

\* the texts handed to the converter: a fixed head and a generated body
Texts ==
    {h \o b : h \in TextPrefixes, b \in StrsUpTo(BodyAlphabet, MaxBodyLen)}
        \cup SampleTexts

PatternSets ==
    {<<>>, DefaultExcludePatterns, <<"*.tmp", "(", "C:*">>, <<"C:\\*">>}

NoRet == [op |-> "none"]

Idle == [AutoConvert |-> TRUE, normalize |-> FALSE]

NoHist == [copies |-> 0]

InitPC ==
    /\ phase = "pc_call"
    /\ pc \in {NewPathConverter(ps) : ps \in PatternSets}
    /\ arg \in Texts
    /\ ret = NoRet
    /\ cfg = Idle
    /\ clip = NoText
    /\ lastContentHash = ""
    /\ pending = 0
    /\ hist = NoHist

CallShouldConvert ==
    /\ phase = "pc_call"
    /\ ret' = [op |-> "ShouldConvert", value |-> ShouldConvert(pc, arg)]
    /\ phase' = "pc_done"
    /\ UNCHANGED <<cfg, clip, lastContentHash, pending, pc, arg, hist>>

CallConvert ==
    /\ phase = "pc_call"
    /\ ret' = [op |-> "Convert", value |-> Convert(arg)]
    /\ phase' = "pc_done"
    /\ UNCHANGED <<cfg, clip, lastContentHash, pending, pc, arg, hist>>

\* Convert applied to its own output
CallConvertAgain ==
    /\ phase = "pc_done"
    /\ ret.op = "Convert"
    /\ ret' = [op |-> "ConvertAgain", first |-> ret.value,
               value |-> Convert(ret.value)]
    /\ phase' = "pc_again"
    /\ UNCHANGED <<cfg, clip, lastContentHash, pending, pc, arg, hist>>

NextPC == CallShouldConvert \/ CallConvert \/ CallConvertAgain

SpecPC == InitPC /\ [][NextPC]_vars

(***************************************************************************)
(* SpecUpd: UpdateExcludePatterns statement by statement, with a second    *)
(* goroutine calling ShouldConvert on the same PathConverter               *)
(***************************************************************************)
UpdTexts == {"C:\\a", "C:\\a.tmp", "D:\\a", "https://e.com/a\\b"}

UpdPhases == {"upd_call", "upd_patterns", "upd_compile", "upd_done"}

\* the initial segments of a sequence
Prefixes(seq) == {SubSeq(seq, 1, n) : n \in 0..Len(seq)}

\* What the reader's 'range pc.excludeRegexps' can get.  The field is
\* written without synchronisation: outside the update the reader gets the
\* field; while the update runs, the read races with the writes of the
\* slice header, and yields the field or an initial segment of the slice
\* before the update or of the slice being built.
RacyViews(at, old, cur) ==
    IF at \in {"upd_call", "upd_done"} THEN {cur}
    ELSE Prefixes(old) \cup Prefixes(cur)

KeptRegexps(regexps) == regexps

\* pc.excludeRegexps = nil
ClearedRegexps(regexps) == <<>>

\* updates: the calls of UpdateExcludePatterns made so far
FirstUpdate == [updates |-> 1]

InitUpd ==
    /\ phase = "upd_call"
    /\ pc \in {NewPathConverter(ps) : ps \in PatternSets}
    /\ \E t \in UpdTexts, ps \in PatternSets :
           arg = [text |-> t, patterns |-> ps, old |-> pc]
    /\ ret = NoRet
    /\ cfg = Idle
    /\ clip = NoText
    /\ lastContentHash = ""
    /\ pending = 0
    /\ hist = FirstUpdate

\* pc.excludePatterns = patterns
UpdSetPatterns ==
    /\ phase = "upd_call"
    /\ pc' = [pc EXCEPT !.excludePatterns = arg.patterns]
    /\ phase' = "upd_patterns"
    /\ UNCHANGED <<cfg, clip, lastContentHash, pending, arg, ret, hist>>

\* pc.excludeRegexps = nil
UpdClearRegexps ==
    /\ phase = "upd_patterns"
    /\ pc' = [pc EXCEPT !.excludeRegexps = ClearedRegexps(@)]
    /\ pending' = 0
    /\ phase' = "upd_compile"
    /\ UNCHANGED <<cfg, clip, lastContentHash, arg, ret, hist>>

\* one iteration of the loop of compileExcludePatterns
UpdCompileNext ==
    /\ phase = "upd_compile"
    /\ pending < Len(pc.excludePatterns)
    /\ pc' = [pc EXCEPT !.excludeRegexps =
                  compileExcludePatterns(<<pc.excludePatterns[pending + 1]>>,
                                         pc.excludeRegexps)]
    /\ pending' = pending + 1
    /\ UNCHANGED <<phase, cfg, clip, lastContentHash, arg, ret, hist>>

\* the loop is over and UpdateExcludePatterns returns
UpdReturn ==
    /\ phase = "upd_compile"
    /\ pending = Len(pc.excludePatterns)
    /\ phase' = "upd_done"
    /\ UNCHANGED <<cfg, clip, lastContentHash, pending, pc, arg, ret, hist>>

\* UpdateExcludePatterns is called again, with another list
UpdCallAgain ==
    /\ phase = "upd_done"
    /\ hist.updates < MaxUpdates
    /\ \E ps \in PatternSets :
           arg' = [arg EXCEPT !.patterns = ps, !.old = pc]
    /\ hist' = [hist EXCEPT !.updates = @ + 1]
    /\ ret' = NoRet
    /\ phase' = "upd_call"
    /\ UNCHANGED <<cfg, clip, lastContentHash, pending, pc>>

\* the other goroutine runs ShouldConvert(text) on the same object
ReadShouldConvert ==
    /\ phase \in UpdPhases
    /\ \E seen \in RacyViews(phase, arg.old.excludeRegexps, pc.excludeRegexps) :
           ret' = [op |-> "ShouldConvert", during |-> phase, seen |-> seen,
                   value |-> ShouldConvert([pc EXCEPT !.excludeRegexps = seen],
                                           arg.text)]
    /\ UNCHANGED <<phase, cfg, clip, lastContentHash, pending, pc, arg, hist>>

NextUpd ==
    \/ UpdSetPatterns
    \/ UpdClearRegexps
    \/ UpdCompileNext
    \/ UpdReturn
    \/ UpdCallAgain
    \/ ReadShouldConvert

SpecUpd == InitUpd /\ [][NextUpd]_vars

(***************************************************************************)
(* SpecIO: one GetText or SetText call against the OS clipboard            *)
(***************************************************************************)
IoClips == {NoText, TextClip("C:\\a"), TextClip("x")}

IoTexts == {"C:/a", "y"}

IoCalls ==
    [op : {"GetText"}, text : {""}, env : GetEnvs]
        \cup [op : {"SetText"}, text : IoTexts, env : SetEnvs]

InitIO ==
    /\ phase = "io_call"
    /\ clip \in IoClips
    /\ arg \in IoCalls
    /\ ret = NoRet
    /\ cfg = Idle
    /\ lastContentHash = ""
    /\ pending = 0
    /\ pc = NewPathConverter(<<>>)
    /\ hist = NoHist

CallGetText ==
    /\ phase = "io_call"
    /\ arg.op = "GetText"
    /\ ret' = [op |-> "GetText", pre |-> clip] @@ GetText(clip, arg.env)
    /\ phase' = "io_done"
    /\ UNCHANGED <<cfg, clip, lastContentHash, pending, pc, arg, hist>>

CallSetText ==
    /\ phase = "io_call"
    /\ arg.op = "SetText"
    /\ LET r == SetText(clip, arg.text, arg.env)
       IN  /\ ret' = [op |-> "SetText", pre |-> clip, err |-> r.err,
                      opens |-> r.opens, closes |-> r.closes, slept |-> r.slept]
           /\ clip' = r.clip
    /\ phase' = "io_done"
    /\ UNCHANGED <<cfg, lastContentHash, pending, pc, arg, hist>>

NextIO == CallGetText \/ CallSetText

SpecIO == InitIO /\ [][NextIO]_vars

(***************************************************************************)
(* Spec: the application loop                                              *)
(***************************************************************************)
ExternalClips == {NoText} \cup {TextClip(t) : t \in ExternalTexts}

\* For the loop only the outcome of a call matters, and a call that fails
\* ends the cycle, so the answers to the calls after it are never asked
\* for. One environment stands for each outcome: the clipboard opens at the
\* second attempt, it never opens, and for SetText SetClipboardData fails
\* after the clipboard was emptied.
OpensLate == [i \in 1..MaxOpenAnswers |-> i > 1]

NeverOpens == [i \in 1..MaxOpenAnswers |-> FALSE]

GetOk == [open |-> OpensLate, fail |-> "none"]

GetFails == [open |-> NeverOpens, fail |-> "none"]

SetOk == [open |-> OpensLate, fail |-> "none"]

SetCannotOpen == [open |-> NeverOpens, fail |-> "none"]

SetDataFails == [open |-> OpensLate, fail |-> "set"]

\* the answers to GetText and SetText of processClipboardChange
CycleEnvs ==
    {<<GetFails, SetOk>>, <<GetOk, SetOk>>, <<GetOk, SetCannotOpen>>,
     <<GetOk, SetDataFails>>}

\* the same with the answer to the GetText of HasChanged in front
TickEnvs ==
    {<<GetFails, GetOk, SetOk>>} \cup {<<GetOk, e[1], e[2]>> : e \in CycleEnvs}

NoCycle ==
    [op |-> "none", mode |-> "none", pre |-> NoText, preHash |-> "",
     fresh |-> FALSE, own |-> FALSE, retry |-> FALSE, decided |-> FALSE,
     hcCalled |-> FALSE, hcOk |-> FALSE, hcChanged |-> FALSE, hcLast |-> "",
     ran |-> FALSE, out |-> "none", ioerr |-> FALSE,
     post |-> NoText, postHash |-> ""]

\* copies: external copies so far; writes: changes this program made to the
\* clipboard since the last external copy; fresh: no cycle has run since
\* the last external copy; own: the clipboard holds a text this program
\* wrote; failed: the last cycle met an I/O error and the clipboard has not
\* changed since; settled: the text last written back or last decided not
\* to be rewritten; decided: a cycle decided not to rewrite the content and
\* the clipboard has not changed since
InitHist ==
    [copies |-> 0, writes |-> 0, fresh |-> FALSE, own |-> FALSE,
     failed |-> FALSE, settled |-> "", hasSettled |-> FALSE,
     decided |-> FALSE]

Init ==
    /\ phase = "start"
    /\ cfg \in [AutoConvert : BOOLEAN, normalize : BOOLEAN]
    /\ clip = NoText
    /\ lastContentHash = ""
    /\ pending = 0
    /\ pc = NewPathConverter(DefaultExcludePatterns)
    /\ arg = ""
    /\ ret = NoCycle
    /\ hist = InitHist

\* Run: runWithClipboardListener registers the window and the listener
StartListener ==
    /\ phase = "start"
    /\ phase' = "event"
    /\ UNCHANGED <<cfg, clip, lastContentHash, pending, pc, arg, ret, hist>>

\* Run: the listener cannot be set up, runWithPolling takes over
FallBackToPolling ==
    /\ phase = "start"
    /\ phase' = "polling"
    /\ UNCHANGED <<cfg, clip, lastContentHash, pending, pc, arg, ret, hist>>

\* another application puts a text, or something that is no text, on the
\* clipboard; a registered listener is notified
ExternalCopy ==
    /\ phase \in {"start", "event", "polling"}
    /\ hist.copies < MaxCopies
    /\ pending < MaxPending
    /\ \E c \in ExternalClips : clip' = c
    /\ pending' = IF phase = "event" THEN pending + 1 ELSE pending
    /\ hist' = [hist EXCEPT !.copies = @ + 1, !.writes = 0, !.fresh = TRUE,
                            !.own = FALSE, !.failed = FALSE,
                            !.decided = FALSE]
    /\ UNCHANGED <<phase, cfg, lastContentHash, pc, arg, ret>>

\* a WM_CLIPBOARDUPDATE although the text did not change
SpuriousUpdate ==
    /\ phase = "event"
    /\ pending < MaxPending
    /\ pending' = pending + 1
    /\ UNCHANGED <<phase, cfg, clip, lastContentHash, pc, arg, ret, hist>>

\* the history after a cycle that ended with r on clipboard content c
HistAfter(c, r) ==
    [hist EXCEPT
        !.writes = IF r.clip # c THEN @ + 1 ELSE @,
        !.fresh = FALSE,
        !.own = IF r.out = "written" THEN TRUE
                ELSE IF r.clip # c THEN FALSE ELSE @,
        !.failed = r.ioerr /\ r.clip = c,
        !.settled = IF r.out = "written" THEN r.clip.text
                    ELSE IF r.out \in {"ineligible", "noop"} THEN c.text
                    ELSE @,
        !.hasSettled = @ \/ r.out \in {"written", "ineligible", "noop"},
        !.decided = IF r.clip # c THEN FALSE
                    ELSE IF r.out \in {"ineligible", "noop"} THEN TRUE
                    ELSE @]

\* the message loop of runWithClipboardListener takes one
\* WM_CLIPBOARDUPDATE and calls processClipboardChange; the listener hears
\* of the program's own change of the clipboard too
HandleClipboardUpdate ==
    /\ phase = "event"
    /\ pending > 0
    /\ \E env \in CycleEnvs :
        \E r \in {processClipboardChange(cfg, pc, clip, lastContentHash, env[1], env[2])} :
            /\ clip' = r.clip
            /\ lastContentHash' = r.last
            /\ pending' = (pending - 1) + (IF r.clip # clip THEN 1 ELSE 0)
            /\ ret' = [NoCycle EXCEPT
                          !.op = "cycle", !.mode = "event", !.pre = clip,
                          !.preHash = lastContentHash, !.fresh = hist.fresh,
                          !.own = hist.own, !.retry = hist.failed,
                          !.decided = hist.decided,
                          !.ran = TRUE, !.out = r.out, !.ioerr = r.ioerr,
                          !.post = r.clip, !.postHash = r.last]
            /\ hist' = HistAfter(clip, r)
    /\ UNCHANGED <<phase, cfg, pc, arg>>

\* the body of the ticker case of runWithPolling: HasChanged, then
\* processClipboardChange when it reported a change
PollOnce(cf, p, c, last, henv, genv, senv) ==
    LET h == HasChanged(c, last, henv)
    IN  IF h.err # "nil"
        THEN [clip |-> c, last |-> h.last, out |-> "none", ioerr |-> TRUE,
              ran |-> FALSE, hcOk |-> FALSE, changed |-> h.changed,
              hcLast |-> h.last]
        ELSE IF ~h.changed
        THEN [clip |-> c, last |-> h.last, out |-> "none", ioerr |-> FALSE,
              ran |-> FALSE, hcOk |-> TRUE, changed |-> h.changed,
              hcLast |-> h.last]
        ELSE processClipboardChange(cf, p, c, h.last, genv, senv)
                 @@ [ran |-> TRUE, hcOk |-> TRUE, changed |-> h.changed,
                     hcLast |-> h.last]

\* one tick of the polling loop
Tick ==
    /\ phase = "polling"
    /\ \E env \in TickEnvs :
        \E r \in {PollOnce(cfg, pc, clip, lastContentHash, env[1], env[2], env[3])} :
            /\ clip' = r.clip
            /\ lastContentHash' = r.last
            /\ ret' = [NoCycle EXCEPT
                          !.op = "cycle", !.mode = "polling", !.pre = clip,
                          !.preHash = lastContentHash, !.fresh = hist.fresh,
                          !.own = hist.own, !.retry = hist.failed,
                          !.decided = hist.decided,
                          !.hcCalled = TRUE, !.hcOk = r.hcOk,
                          !.hcChanged = r.changed, !.hcLast = r.hcLast,
                          !.ran = r.ran, !.out = r.out, !.ioerr = r.ioerr,
                          !.post = r.clip, !.postHash = r.last]
            /\ hist' = HistAfter(clip, r)
    /\ UNCHANGED <<phase, cfg, pending, pc, arg>>

\* SIGINT, SIGTERM or a cancelled context ends the loop between two cycles
Shutdown ==
    /\ phase \in {"event", "polling"}
    /\ phase' = "exited"
    /\ UNCHANGED <<cfg, clip, lastContentHash, pending, pc, arg, ret, hist>>

Next ==
    \/ StartListener
    \/ FallBackToPolling
    \/ ExternalCopy
    \/ SpuriousUpdate
    \/ HandleClipboardUpdate
    \/ Tick
    \/ Shutdown

Spec == Init /\ [][Next]_vars

(***************************************************************************)
(* SpecRun: the control flow of Run, of the two loops and of the helper    *)
(* goroutine of the listener, with the cycle as a begin and an end step    *)
(***************************************************************************)
RunAfterListenerNoFallback(err) ==
    IF err # "nil" THEN "return_err" ELSE "return_nil"

\* Run, once runWithClipboardListener has returned err
RunAfterListener(err) ==
    IF err # "nil" THEN "polling" ELSE "return_nil"

DispatchCycleAsync(waiting) == waiting

\* a.processClipboardChange() is an ordinary call: the loop that makes it
\* stands in the cycle until the call returns
DispatchCycle(waiting) ==
    IF waiting = "run_listen" THEN "run_cycle_ev" ELSE "run_cycle_poll"

\* the calls of runWithClipboardListener that can fail before the loop
InitSteps == {"RegisterClassExW", "CreateWindowExW", "AddClipboardFormatListener"}

PollPhases == {"run_poll", "run_cycle_poll"}

\* fallbacks: calls of runWithPolling; initFailed: the listener could not be
\* set up; listener: the clipboard listener is registered; helper: the
\* goroutine that waits for sigCh and ctx.Done(); sig: signals buffered in
\* sigCh; quitPosted: WM_QUIT is in the thread's queue; woken, ticked: a
\* cycle has begun in the event loop, in the polling loop; inflight: cycles
\* begun and not yet ended
RunHist ==
    [fallbacks |-> 0, initFailed |-> FALSE, listener |-> FALSE,
     helper |-> "none", sig |-> 0, sigDelivered |-> FALSE,
     cancelled |-> FALSE, quitPosted |-> FALSE, woken |-> FALSE,
     ticked |-> FALSE, inflight |-> 0]

InitRun ==
    /\ phase = "run_start"
    /\ hist = RunHist
    /\ pending = 0
    /\ ret = NoRet
    /\ arg = ""
    /\ cfg = Idle
    /\ clip = NoText
    /\ lastContentHash = ""
    /\ pc = NewPathConverter(DefaultExcludePatterns)

\* what Run does with the error of runWithClipboardListener; the deferred
\* calls of runWithClipboardListener have removed listener and window
RunListenerReturns(err, h) ==
    LET todo == RunAfterListener(err)
    IN  /\ pending' = 0
        /\ IF todo = "polling"
           THEN /\ phase' = "run_poll"
                /\ hist' = [h EXCEPT !.listener = FALSE, !.fallbacks = @ + 1]
                /\ ret' = ret
           ELSE /\ phase' = "run_exited"
                /\ hist' = [h EXCEPT !.listener = FALSE]
                /\ ret' = [op |-> "Run",
                           err |-> IF todo = "return_err" THEN err ELSE "nil"]

\* class, window and listener are registered, the helper goroutine starts
RunListenerStarts ==
    /\ phase = "run_start"
    /\ phase' = "run_listen"
    /\ hist' = [hist EXCEPT !.listener = TRUE, !.helper = "waiting"]
    /\ UNCHANGED <<cfg, clip, lastContentHash, pending, pc, arg, ret>>

\* one of the three calls fails and runWithClipboardListener returns
RunListenerInitFails ==
    /\ phase = "run_start"
    /\ \E step \in InitSteps :
           RunListenerReturns(step, [hist EXCEPT !.initFailed = TRUE])
    /\ UNCHANGED <<cfg, clip, lastContentHash, pc, arg>>

\* the system posts WM_CLIPBOARDUPDATE; a message posted behind WM_QUIT is
\* never taken from the queue
RunPostUpdate ==
    /\ hist.listener
    /\ ~hist.quitPosted
    /\ pending < MaxPending
    /\ pending' = pending + 1
    /\ UNCHANGED <<phase, cfg, clip, lastContentHash, pc, arg, ret, hist>>

\* GetMessageW returns WM_CLIPBOARDUPDATE, processClipboardChange is called
RunEvBeginCycle ==
    /\ phase = "run_listen"
    /\ pending > 0
    /\ hist.inflight < MaxInflight
    /\ pending' = pending - 1
    /\ phase' = DispatchCycle(phase)
    /\ hist' = [hist EXCEPT !.inflight = @ + 1, !.woken = TRUE]
    /\ UNCHANGED <<cfg, clip, lastContentHash, pc, arg, ret>>

\* processClipboardChange returns and the loop waits again
RunEndCycle ==
    /\ hist.inflight > 0
    /\ hist' = [hist EXCEPT !.inflight = @ - 1]
    /\ phase' = IF phase = "run_cycle_ev" THEN "run_listen"
                ELSE IF phase = "run_cycle_poll" THEN "run_poll"
                ELSE phase
    /\ UNCHANGED <<cfg, clip, lastContentHash, pending, pc, arg, ret>>

\* GetMessageW returns -1: runWithClipboardListener returns an error
RunGetMessageFails ==
    /\ phase = "run_listen"
    /\ RunListenerReturns("GetMessageW", hist)
    /\ UNCHANGED <<cfg, clip, lastContentHash, pc, arg>>

\* GetMessageW returns 0 for WM_QUIT
RunEvQuit ==
    /\ phase = "run_listen"
    /\ hist.quitPosted
    /\ pending = 0
    /\ RunListenerReturns("nil", hist)
    /\ UNCHANGED <<cfg, clip, lastContentHash, pc, arg>>

\* the loop finds ctx.Done() closed before it asks for the next message
RunEvCtxDone ==
    /\ phase = "run_listen"
    /\ hist.cancelled
    /\ RunListenerReturns("nil", hist)
    /\ UNCHANGED <<cfg, clip, lastContentHash, pc, arg>>

\* SIGINT or SIGTERM arrives: signal.Notify puts it into sigCh
RunSignal ==
    /\ phase # "run_exited"
    /\ ~hist.sigDelivered
    /\ hist' = [hist EXCEPT !.sig = 1, !.sigDelivered = TRUE]
    /\ UNCHANGED <<phase, cfg, clip, lastContentHash, pending, pc, arg, ret>>

\* Cleanup, called from elsewhere, cancels the context
RunCancel ==
    /\ phase # "run_exited"
    /\ ~hist.cancelled
    /\ hist' = [hist EXCEPT !.cancelled = TRUE]
    /\ UNCHANGED <<phase, cfg, clip, lastContentHash, pending, pc, arg, ret>>

\* the helper goroutine receives the signal and posts WM_QUIT
RunHelperSignal ==
    /\ hist.helper = "waiting"
    /\ hist.sig = 1
    /\ hist' = [hist EXCEPT !.sig = 0, !.quitPosted = TRUE, !.helper = "done"]
    /\ UNCHANGED <<phase, cfg, clip, lastContentHash, pending, pc, arg, ret>>

\* the helper goroutine finds ctx.Done() closed and posts WM_QUIT
RunHelperCtxDone ==
    /\ hist.helper = "waiting"
    /\ hist.cancelled
    /\ hist' = [hist EXCEPT !.quitPosted = TRUE, !.helper = "done"]
    /\ UNCHANGED <<phase, cfg, clip, lastContentHash, pending, pc, arg, ret>>

\* case <-ticker.C: HasChanged and, on a change, processClipboardChange
RunPollTick ==
    /\ phase = "run_poll"
    /\ hist.inflight < MaxInflight
    /\ phase' = DispatchCycle(phase)
    /\ hist' = [hist EXCEPT !.inflight = @ + 1, !.ticked = TRUE]
    /\ UNCHANGED <<cfg, clip, lastContentHash, pending, pc, arg, ret>>

\* case <-a.sigCh: cancel and return
RunPollSignal ==
    /\ phase = "run_poll"
    /\ hist.sig = 1
    /\ phase' = "run_exited"
    /\ hist' = [hist EXCEPT !.sig = 0, !.cancelled = TRUE]
    /\ ret' = [op |-> "Run", err |-> "nil"]
    /\ UNCHANGED <<cfg, clip, lastContentHash, pending, pc, arg>>

\* case <-a.ctx.Done(): return
RunPollCtxDone ==
    /\ phase = "run_poll"
    /\ hist.cancelled
    /\ phase' = "run_exited"
    /\ ret' = [op |-> "Run", err |-> "nil"]
    /\ UNCHANGED <<cfg, clip, lastContentHash, pending, pc, arg, hist>>

NextRun ==
    \/ RunListenerStarts
    \/ RunListenerInitFails
    \/ RunPostUpdate
    \/ RunEvBeginCycle
    \/ RunEndCycle
    \/ RunGetMessageFails
    \/ RunEvQuit
    \/ RunEvCtxDone
    \/ RunSignal
    \/ RunCancel
    \/ RunHelperSignal
    \/ RunHelperCtxDone
    \/ RunPollTick
    \/ RunPollSignal
    \/ RunPollCtxDone

SpecRun == InitRun /\ [][NextRun]_vars

\* Every step of the program is taken when it stays possible; a case of the
\* select of the polling loop that is ready again and again is chosen in
\* the end, since select chooses among the ready cases at random.
FairSpecRun ==
    /\ SpecRun
    /\ WF_vars(RunListenerStarts \/ RunListenerInitFails)
    /\ WF_vars(RunEvBeginCycle)
    /\ WF_vars(RunEndCycle)
    /\ WF_vars(RunEvQuit)
    /\ WF_vars(RunEvCtxDone)
    /\ WF_vars(RunHelperSignal)
    /\ WF_vars(RunHelperCtxDone)
    /\ WF_vars(RunPollTick)
    /\ SF_vars(RunPollSignal)
    /\ SF_vars(RunPollCtxDone)

(***************************************************************************)
(* SpecUtil: parseLogLevel, NewLogger, ShortenText and DefaultConfig       *)
(***************************************************************************)
parseLogLevelCaseSensitive(levelStr) ==
    CASE levelStr = "debug" -> "DEBUG"
      [] levelStr = "info" -> "INFO"
      [] levelStr \in {"warn", "warning"} -> "WARN"
      [] levelStr = "error" -> "ERROR"
      [] OTHER -> "INFO"

\* a LogLevel is written by the name its String method gives it
parseLogLevel(levelStr) ==
    LET l == ToLower(levelStr)
    IN  CASE l = "debug" -> "DEBUG"
          [] l = "info" -> "INFO"
          [] l \in {"warn", "warning"} -> "WARN"
          [] l = "error" -> "ERROR"
          [] OTHER -> "INFO"

NewLogger(levelStr) ==
    [level |-> parseLogLevel(levelStr), output |-> "stdout",
     outputFile |-> "nil"]

ShortenLimit == 50

ShortenKeep == 20

ShortenTextStrict(text) ==
    IF Len(text) < ShortenLimit THEN text
    ELSE SubSeq(text, 1, ShortenKeep) \o "..."
             \o SubSeq(text, Len(text) - ShortenKeep + 1, Len(text))

ShortenText(text) ==
    IF Len(text) <= ShortenLimit THEN text
    ELSE SubSeq(text, 1, ShortenKeep) \o "..."
             \o SubSeq(text, Len(text) - ShortenKeep + 1, Len(text))

\* the two DefaultConfig functions of the repository
ConfigVersions == {"part_006", "part_007"}

PollIntervalMs == 100

DefaultConfig(version) ==
    [PollInterval |-> PollIntervalMs,
     AutoConvert |-> TRUE,
     ShowNotifications |-> TRUE,
     ExcludePatterns |->
         IF version = "part_006" THEN DefaultExcludePatterns
         ELSE <<"http://*", "https://*">>,
     LogLevel |-> "info",
     MutexName |-> "PathConvertToolMutex"]

\* every way to write a word in upper and lower case letters
RECURSIVE CaseVariants(_)
CaseVariants(w) ==
    IF w = "" THEN {""}
    ELSE LET c == Head(w)
             up == IF Ascii[c] \in 97..122 THEN Chr(Ascii[c] - 32) ELSE c
         IN  {h \o t : h \in {SubSeq(w, 1, 1), up}, t \in CaseVariants(Tail(w))}

LevelWords == {"debug", "info", "warn", "warning", "error"}

\* the level names of the tests in every spelling, and names that are none
LevelNames ==
    UNION {CaseVariants(w) : w \in LevelWords}
        \cup {"", "unknown", "trace", "warnin", "warnings", " info", "info ",
              "inf0", "err", "fatal", "DEBUG1"}

RulerLetters == "abcdefghijklmnopqrstuvwxyz"

\* a text of n letters in which a letter tells its place
RECURSIVE Ruler(_, _)
Ruler(from, n) ==
    IF n = 0 THEN ""
    ELSE Ruler(from, n - 1)
             \o Ch(RulerLetters, ((from + n - 1) % Len(RulerLetters)) + 1)

ShortenTexts ==
    {Ruler(from, n) : from \in {0, 7}, n \in 0..MaxShortenLen}
        \cup {"C:\\Users\\test\\file.txt"}

InitUtil ==
    /\ phase = "util_call"
    /\ arg = ""
    /\ ret = NoRet
    /\ cfg = Idle
    /\ clip = NoText
    /\ lastContentHash = ""
    /\ pending = 0
    /\ hist = NoHist
    /\ pc = NewPathConverter(<<>>)

CallParseLogLevel ==
    /\ \E levelStr \in LevelNames :
           /\ arg' = levelStr
           /\ ret' = [op |-> "parseLogLevel", value |-> parseLogLevel(levelStr)]
    /\ phase' = "util_done"
    /\ UNCHANGED <<cfg, clip, lastContentHash, pending, pc, hist>>

CallNewLogger ==
    /\ \E levelStr \in LevelNames :
           /\ arg' = levelStr
           /\ ret' = [op |-> "NewLogger", value |-> NewLogger(levelStr)]
    /\ phase' = "util_done"
    /\ UNCHANGED <<cfg, clip, lastContentHash, pending, pc, hist>>

CallShortenText ==
    /\ \E text \in ShortenTexts :
           /\ arg' = text
           /\ ret' = [op |-> "ShortenText", value |-> ShortenText(text)]
    /\ phase' = "util_done"
    /\ UNCHANGED <<cfg, clip, lastContentHash, pending, pc, hist>>

CallDefaultConfig ==
    /\ \E version \in ConfigVersions :
           /\ arg' = version
           /\ ret' = [op |-> "DefaultConfig", value |-> DefaultConfig(version)]
    /\ phase' = "util_done"
    /\ UNCHANGED <<cfg, clip, lastContentHash, pending, pc, hist>>

NextUtil ==
    \/ CallParseLogLevel
    \/ CallNewLogger
    \/ CallShortenText
    \/ CallDefaultConfig

SpecUtil == InitUtil /\ [][NextUtil]_vars

(***************************************************************************)
(* SpecSingle: InitSingleton and ReleaseSingleton in the processes started *)
(* with one mutex name, and the named mutex of the operating system        *)
(***************************************************************************)
Procs == 1..NumProcs

\* What CreateMutex answers: created, a new mutex and a nil error; exists, a
\* handle to the mutex another process holds and ERROR_ALREADY_EXISTS as
\* the error; error, no handle.
CreateAnswers(exists) ==
    IF exists THEN {"exists", "error"} ELSE {"created", "error"}

\* What GetLastError returns after CreateMutex has returned: the value is
\* that of the thread the goroutine runs on at that moment.
LastErrors == {"ERROR_SUCCESS", "ERROR_ALREADY_EXISTS"}

\* What CloseHandle answers for a handle the process holds; a process never
\* hands ReleaseSingleton a handle it has closed, so ERROR_INVALID_HANDLE
\* is not among the answers.
CloseAnswers == {"ok", "other"}

InitSingletonIgnoresExisting(st, ans, lastErr) ==
    IF ans = "error"
    THEN [mutexHandle |-> st.mutexHandle, isSingle |-> st.isSingle,
          value |-> FALSE, opened |-> FALSE]
    ELSE [mutexHandle |-> 1, isSingle |-> TRUE, value |-> TRUE,
          opened |-> TRUE]

\* st holds the package variables mutexHandle and isSingle; opened tells
\* whether the operating system has handed out a handle
InitSingleton(st, ans, lastErr) ==
    IF ans \in {"error", "exists"}
    THEN [mutexHandle |-> st.mutexHandle, isSingle |-> st.isSingle,
          value |-> FALSE, opened |-> (ans = "exists")]
    ELSE IF lastErr = "ERROR_ALREADY_EXISTS"
    THEN [mutexHandle |-> 1, isSingle |-> st.isSingle, value |-> FALSE,
          opened |-> TRUE]
    ELSE [mutexHandle |-> 1, isSingle |-> TRUE, value |-> TRUE,
          opened |-> TRUE]

ReleaseSingletonKeepsHandle(st, ans) ==
    IF ~st.isSingle \/ st.mutexHandle = 0
    THEN [mutexHandle |-> st.mutexHandle, isSingle |-> st.isSingle,
          value |-> TRUE, called |-> FALSE, closed |-> FALSE]
    ELSE [mutexHandle |-> st.mutexHandle, isSingle |-> st.isSingle,
          value |-> (ans # "other"), called |-> TRUE, closed |-> (ans = "ok")]

\* called: CloseHandle was called; closed: it closed the handle
ReleaseSingleton(st, ans) ==
    IF ~st.isSingle \/ st.mutexHandle = 0
    THEN [mutexHandle |-> st.mutexHandle, isSingle |-> st.isSingle,
          value |-> TRUE, called |-> FALSE, closed |-> FALSE]
    ELSE IF ans = "other"
    THEN [mutexHandle |-> st.mutexHandle, isSingle |-> st.isSingle,
          value |-> FALSE, called |-> TRUE, closed |-> FALSE]
    ELSE [mutexHandle |-> 0, isSingle |-> FALSE, value |-> TRUE,
          called |-> TRUE, closed |-> (ans = "ok")]

IsSingleton(st) == st.isSingle

NoCall == [value |-> TRUE, called |-> FALSE, closed |-> FALSE, made |-> FALSE]

\* a process before RunApplication: at, where RunApplication stands; owned,
\* the handles to the mutex the operating system keeps for the process;
\* cycles, the loop of app.Run has started; err, what RunApplication
\* returned; closed, the calls of CloseHandle that closed the handle; rel1
\* and rel2, the two calls of ReleaseSingleton on the way out
NewProcess ==
    [at |-> "start", mutexHandle |-> 0, isSingle |-> FALSE, owned |-> 0,
     cycles |-> FALSE, err |-> "none", closed |-> 0, rel1 |-> NoCall,
     rel2 |-> NoCall]

\* the named mutex exists as long as a process holds a handle to it
MutexExists(h) == \E q \in Procs : h[q].owned > 0

InitSingle ==
    /\ phase = "single"
    /\ hist = [p \in Procs |-> NewProcess]
    /\ ret = NoRet
    /\ arg = ""
    /\ cfg = Idle
    /\ clip = NoText
    /\ lastContentHash = ""
    /\ pending = 0
    /\ pc = NewPathConverter(<<>>)

\* RunApplication calls InitSingleton and returns an error when it is false
SingleInit(p) ==
    /\ hist[p].at = "start"
    /\ \E ans \in CreateAnswers(MutexExists(hist)), lastErr \in LastErrors :
           LET r == InitSingleton(hist[p], ans, lastErr)
           IN  /\ hist' = [hist EXCEPT
                      ![p].mutexHandle = r.mutexHandle,
                      ![p].isSingle = r.isSingle,
                      ![p].owned = IF r.opened THEN @ + 1 ELSE @,
                      ![p].at = IF r.value THEN "running" ELSE "refused",
                      ![p].err = IF r.value THEN "none" ELSE "already running"]
               /\ ret' = [op |-> "InitSingleton", proc |-> p,
                          value |-> r.value,
                          held |-> \E q \in Procs \ {p} :
                                       /\ hist[q].at # "exited"
                                       /\ IsSingleton(hist[q])]
    /\ UNCHANGED <<phase, cfg, clip, lastContentHash, pending, pc, arg>>

\* app.Run starts its loop
SingleCycle(p) ==
    /\ hist[p].at = "running"
    /\ ~hist[p].cycles
    /\ hist' = [hist EXCEPT ![p].cycles = TRUE]
    /\ UNCHANGED <<phase, cfg, clip, lastContentHash, pending, pc, arg, ret>>

\* app.Run has returned: the deferred app.Cleanup calls ReleaseSingleton
SingleCleanup(p) ==
    /\ hist[p].at = "running"
    /\ \E ans \in CloseAnswers :
           LET r == ReleaseSingleton(hist[p], ans)
           IN  /\ hist' = [hist EXCEPT
                      ![p].mutexHandle = r.mutexHandle,
                      ![p].isSingle = r.isSingle,
                      ![p].owned = IF r.closed THEN @ - 1 ELSE @,
                      ![p].closed = IF r.closed THEN @ + 1 ELSE @,
                      ![p].rel1 = [value |-> r.value, called |-> r.called,
                                   closed |-> r.closed, made |-> TRUE],
                      ![p].at = "released1"]
               /\ ret' = [op |-> "ReleaseSingleton", proc |-> p,
                          value |-> r.value]
    /\ UNCHANGED <<phase, cfg, clip, lastContentHash, pending, pc, arg>>

\* the deferred singleton.ReleaseSingleton of RunApplication
SingleDeferredRelease(p) ==
    /\ hist[p].at = "released1"
    /\ \E ans \in CloseAnswers :
           LET r == ReleaseSingleton(hist[p], ans)
           IN  /\ hist' = [hist EXCEPT
                      ![p].mutexHandle = r.mutexHandle,
                      ![p].isSingle = r.isSingle,
                      ![p].owned = IF r.closed THEN @ - 1 ELSE @,
                      ![p].closed = IF r.closed THEN @ + 1 ELSE @,
                      ![p].rel2 = [value |-> r.value, called |-> r.called,
                                   closed |-> r.closed, made |-> TRUE],
                      ![p].err = "nil",
                      ![p].at = "released2"]
               /\ ret' = [op |-> "ReleaseSingleton", proc |-> p,
                          value |-> r.value]
    /\ UNCHANGED <<phase, cfg, clip, lastContentHash, pending, pc, arg>>

\* the process ends and the operating system closes the handles it held
SingleExit(p) ==
    /\ hist[p].at \in {"refused", "released2"}
    /\ hist' = [hist EXCEPT ![p].at = "exited", ![p].owned = 0]
    /\ UNCHANGED <<phase, cfg, clip, lastContentHash, pending, pc, arg, ret>>

\* the program is started once more
SingleStart(p) ==
    /\ hist[p].at = "exited"
    /\ hist' = [hist EXCEPT ![p] = NewProcess]
    /\ UNCHANGED <<phase, cfg, clip, lastContentHash, pending, pc, arg, ret>>

NextSingle ==
    \/ \E p \in Procs : SingleInit(p)
    \/ \E p \in Procs : SingleCycle(p)
    \/ \E p \in Procs : SingleCleanup(p)
    \/ \E p \in Procs : SingleDeferredRelease(p)
    \/ \E p \in Procs : SingleExit(p)
    \/ \E p \in Procs : SingleStart(p)

SpecSingle == InitSingle /\ [][NextSingle]_vars

(***************************************************************************)
(* Properties of the loop (Spec)                                           *)
(***************************************************************************)
\* the last step was a cycle that started on an eligible text which another
\* application had just copied, with auto-convert on and no I/O error
FreshEligibleCycle ==
    /\ ret.op = "cycle"
    /\ ret.fresh
    /\ cfg.AutoConvert
    /\ ~ret.ioerr
    /\ ret.pre.has
    /\ ShouldConvert(pc, ret.pre.text)

\* C1: in either mode the cycle after an external copy of an eligible text
\* reports a change and writes the converted text back, given auto-convert
\* and working clipboard I/O.
C1_ExternalCopyIsConverted ==
    FreshEligibleCycle =>
        /\ ret.hcCalled => ret.hcChanged
        /\ ret.out = "written"
        /\ ret.post = TextClip(Convert(ret.pre.text))

\* the fingerprint the next cycle computes for the text on the clipboard
NextFingerprint(mode, text) ==
    IF mode = "polling" THEN QuickHash(text) ELSE Fingerprint(cfg, text)

\* C2: after a successful write-back the stored fingerprint is the one the
\* next cycle computes for the written text, and a cycle that finds the
\* written text still on the clipboard reports no change.
C2_WriteBackNotRetriggered ==
    /\ (ret.op = "cycle" /\ ret.out = "written") =>
           ret.postHash = NextFingerprint(ret.mode, ret.post.text)
    /\ (ret.op = "cycle" /\ ret.own /\ ~ret.ioerr /\ cfg.AutoConvert) =>
           IF ret.mode = "polling" THEN ~ret.hcChanged ELSE ret.out = "unchanged"

\* C3: the program changes the clipboard at most once per external copy; a
\* cycle that finds the program's own text leaves the clipboard alone, and
\* no text written back, and no output of Convert, is eligible.
C3_NoRewriteLoop ==
    /\ hist.writes <= 1
    /\ (ret.op = "cycle" /\ ret.own) => ret.post = ret.pre
    /\ (ret.op = "cycle" /\ ret.out = "written") =>
           ~ShouldConvert(pc, ret.post.text)
    /\ \A t \in ExternalTexts : ~ShouldConvert(pc, Convert(t))

\* a later cycle examined the text the program wrote and settled it without
\* writing again
C3_Witness ==
    /\ ret.op = "cycle"
    /\ ret.own
    /\ ret.out = "ineligible"
    /\ hist.writes = 1
    /\ ret.post = ret.pre

\* C4: HasChanged reports a change exactly when the fingerprint of the
\* clipboard text differs from the stored one, and leaves the stored
\* fingerprint as it found it.
C4_HasChangedDoesNotStore ==
    (ret.op = "cycle" /\ ret.hcCalled /\ ret.hcOk) =>
        /\ ret.hcChanged <=> (QuickHash(ret.pre.text) # ret.preHash)
        /\ ret.hcLast = ret.preHash

\* C5: the stored fingerprint is the initial value or the fingerprint of
\* the text last written back or last settled.
C5_StoredFingerprintIsSettled ==
    phase \in {"start", "event", "polling", "exited"} =>
        \/ lastContentHash = ""
        \/ /\ hist.hasSettled
           /\ lastContentHash \in
                  {QuickHash(hist.settled), QuickHash(TrimSpace(hist.settled))}

\* C6: a cycle in which reading or writing the clipboard failed leaves the
\* stored fingerprint as it was, and the cycle after it, on the same
\* eligible text and with working I/O, converts.
C6_FailedCycleIsRetried ==
    /\ (ret.op = "cycle" /\ ret.ioerr) => ret.postHash = ret.preHash
    /\ (/\ ret.op = "cycle"
        /\ ret.retry
        /\ ~ret.ioerr
        /\ cfg.AutoConvert
        /\ ret.pre.has
        /\ ShouldConvert(pc, ret.pre.text)) =>
           ret.out = "written"

\* C25: once a cycle has decided not to rewrite the content, every later
\* cycle on the unchanged clipboard leaves the stored fingerprint and the
\* clipboard as they are and does not ask the converter again, in both
\* modes and for texts with white space around them.
C25_OverNotificationAbsorbed ==
    (ret.op = "cycle" /\ ret.decided) =>
        /\ ret.postHash = ret.preHash
        /\ ret.post = ret.pre
        /\ ret.out \notin {"ineligible", "noop", "written", "seterr"}

(***************************************************************************)
(* Properties of SetText and GetText (SpecIO)                              *)
(***************************************************************************)
\* C7: SetText never partially writes: after the call either the clipboard
\* holds the full new text and nil was returned, or an error was returned
\* and the clipboard holds what it held before the call.
C7_SetTextAllOrNothing ==
    (phase = "io_done" /\ ret.op = "SetText") =>
        \/ ret.err = "nil" /\ clip = TextClip(arg.text)
        \/ ret.err # "nil" /\ clip = ret.pre

\* C8: GetText and SetText open the clipboard at most three times, after
\* delays of 0, 15 and 30 ms; no attempt follows a successful one, and the
\* cannot-open error is returned exactly when the three attempts all failed.
C8_BoundedOpenRetry ==
    phase = "io_done" =>
        /\ ret.opens \in 1..3
        /\ ret.slept = SubSeq(<<0, 15, 30>>, 1, ret.opens)
        /\ \A i \in 1..(ret.opens - 1) : ~arg.env.open[i]
        /\ (ret.err = "open") <=> (\A i \in 1..3 : ~arg.env.open[i])
        /\ ret.err = "open" => ret.opens = 3
        /\ ret.err # "open" => arg.env.open[ret.opens]

\* a call that gave up after three failed opens although a fourth attempt
\* would have succeeded
C8_Witness ==
    /\ phase = "io_done"
    /\ ret.err = "open"
    /\ ret.opens = 3
    /\ ret.slept = <<0, 15, 30>>
    /\ arg.env.open[4]

(***************************************************************************)
(* Properties of ShouldConvert (SpecPC)                                    *)
(***************************************************************************)
\* C9: a text without a backslash is never eligible, whatever the exclude
\* patterns are.
C9_NoBackslashNotEligible ==
    (phase = "pc_done" /\ ret.op = "ShouldConvert" /\ ~Contains(arg, BS)) =>
        ret.value = FALSE

\* ShouldConvert has answered for a %VAR% text without backslash under a
\* non-empty pattern list
C9_Witness ==
    /\ phase = "pc_done"
    /\ ret.op = "ShouldConvert"
    /\ arg = "%A%"
    /\ pc.excludePatterns # <<>>
    /\ ret.value = FALSE

\* X:\ or X:/ at the head of the text, X a letter
DriveLetterPrefix(t) ==
    /\ Len(t) >= 3
    /\ IsLetter(Ch(t, 1))
    /\ Ch(t, 2) = ":"
    /\ Ch(t, 3) \in {BS, "/"}

\* C10 as stated: every text with a drive-letter prefix that matches no
\* exclusion is eligible.
C10_DriveShapeEligible ==
    (/\ phase = "pc_done"
     /\ ret.op = "ShouldConvert"
     /\ DriveLetterPrefix(arg)
     /\ ~isExcluded(pc, Trim(arg, {QUOTE}))) =>
        ret.value = TRUE

\* C10, amended: every text with a drive-letter prefix that contains a
\* backslash and matches no exclusion is eligible.
C10_DriveShapeWithBackslashEligible ==
    (/\ phase = "pc_done"
     /\ ret.op = "ShouldConvert"
     /\ DriveLetterPrefix(arg)
     /\ Contains(arg, BS)
     /\ ~isExcluded(pc, Trim(arg, {QUOTE}))) =>
        ret.value = TRUE

\* ShouldConvert has accepted a text with the prefix X:/ whose backslash
\* comes later, under a pattern list that excludes other texts
C10_Witness ==
    /\ phase = "pc_done"
    /\ ret.op = "ShouldConvert"
    /\ arg = "C:/\\"
    /\ pc.excludePatterns = DefaultExcludePatterns
    /\ ret.value = TRUE

\* C11: a text that begins with two backslashes and matches no exclusion
\* is eligible: ShouldConvert returns true.
C11_UncEligible ==
    (/\ phase = "pc_done"
     /\ ret.op = "ShouldConvert"
     /\ HasPrefix(arg, "\\\\")
     /\ ~isExcluded(pc, Trim(arg, {QUOTE}))) =>
        ret.value = TRUE

\* ShouldConvert has accepted the UNC path of the converter's test
C11_Witness ==
    /\ phase = "pc_done"
    /\ ret.op = "ShouldConvert"
    /\ arg = "\\\\server\\share\\file.txt"
    /\ pc.excludePatterns = DefaultExcludePatterns
    /\ ret.value = TRUE

\* C12: Convert applied to its own output returns that output, and Convert
\* returns a text without a backslash as it is.
C12_ConvertIdempotent ==
    /\ phase = "pc_again" => ret.value = ret.first
    /\ (phase = "pc_done" /\ ret.op = "Convert" /\ ~Contains(arg, BS)) =>
           ret.value = arg

\* Convert has run twice on a quoted path with three backslashes
C12_Witness ==
    /\ phase = "pc_again"
    /\ arg = "\"C:\\a\\b\\c\""
    /\ ret.first = "\"C:/a/b/c\""
    /\ ret.value = ret.first

\* a text wrapped in a pair of double quotes, and what the pair encloses
Wrapped(t) == Len(t) >= 2 /\ HasPrefix(t, QUOTE) /\ HasSuffix(t, QUOTE)

Interior(t) == SubSeq(t, 2, Len(t) - 1)

\* C13: for a text wrapped in double quotes whose interior contains a
\* backslash, Convert returns the interior with every backslash replaced by
\* a forward slash, wrapped in double quotes again.
C13_QuotesPreserved ==
    (/\ phase = "pc_done"
     /\ ret.op = "Convert"
     /\ Wrapped(arg)
     /\ Contains(Interior(arg), BS)) =>
        ret.value = QUOTE \o ReplaceAll(Interior(arg), BS, "/") \o QUOTE

\* C14: a text whose unquoted content starts, whatever the case, with one
\* of the protocol prefixes is never eligible, for every pattern list and
\* also when it holds a %...% run.
C14_ProtocolPrefixExcluded ==
    (/\ phase = "pc_done"
     /\ ret.op = "ShouldConvert"
     /\ HasProtocolPrefix(Trim(arg, {QUOTE}))) =>
        ret.value = FALSE

\* ShouldConvert has rejected an upper-case URL that holds a backslash and
\* a %...% run, with no user pattern configured
C14_Witness ==
    /\ phase = "pc_done"
    /\ ret.op = "ShouldConvert"
    /\ arg = "HTTPS://%\\%"
    /\ pc.excludePatterns = <<>>
    /\ ret.value = FALSE

\* what a glob pattern matches: '*' stands for any run of characters,
\* every other character for itself, and the whole text must be matched
RECURSIVE GlobMatch(_, _)
GlobMatch(pattern, text) ==
    IF pattern = "" THEN text = ""
    ELSE IF Head(pattern) = "*"
         THEN \E k \in 0..Len(text) :
                 GlobMatch(Tail(pattern), SubSeq(text, k + 1, Len(text)))
    ELSE text # "" /\ Head(text) = Head(pattern)
                   /\ GlobMatch(Tail(pattern), Tail(text))

\* an unquoted text with a backslash that no protocol rule and no %...%
\* rule applies to: only the user patterns decide
OnlyUserPatternsDecide(t) ==
    /\ ~Contains(t, QUOTE)
    /\ Contains(t, BS)
    /\ ~HasProtocolPrefix(t)
    /\ ~(Count(t, "%") >= 2 /\ envVarPatternMatch(t))

\* C15: a user pattern excludes a text exactly when the whole text matches
\* it as a glob ('*' any run of characters, '.' a literal dot): where only
\* the user patterns decide, ShouldConvert is false exactly when some
\* pattern of the list matches the whole text.
C15_UserPatternExcludes ==
    (/\ phase = "pc_done"
     /\ ret.op = "ShouldConvert"
     /\ OnlyUserPatternsDecide(arg)) =>
        (ret.value = FALSE <=>
            \E i \in 1..Len(pc.excludePatterns) :
                GlobMatch(pc.excludePatterns[i], arg))

\* some odd-indexed segment (counting from 0) of the split of t on '%'
\* contains a backslash
OddSegmentHasBackslash(t) ==
    LET parts == Split(t, "%")
    IN  \E i \in 1..Len(parts) : i % 2 = 0 /\ Contains(parts[i], BS)

\* C16: a text that matches no protocol prefix and no user pattern, and
\* that holds a %...% run with a backslash in an odd-indexed segment, is
\* eligible: ShouldConvert returns true.
C16_EnvVarOverride ==
    (/\ phase = "pc_done"
     /\ ret.op = "ShouldConvert"
     /\ ~Contains(arg, QUOTE)
     /\ ~HasProtocolPrefix(arg)
     /\ ~MatchesUserPattern(pc, arg)
     /\ envVarPatternMatch(arg)
     /\ OddSegmentHasBackslash(arg)) =>
        ret.value = TRUE

\* C17: a text that holds a %...% run, with no backslash in any odd-indexed
\* segment, is excluded: ShouldConvert returns false.
C17_EnvVarExcludedByDefault ==
    (/\ phase = "pc_done"
     /\ ret.op = "ShouldConvert"
     /\ ~Contains(arg, QUOTE)
     /\ envVarPatternMatch(arg)
     /\ ~OddSegmentHasBackslash(arg)) =>
        ret.value = FALSE

\* t is %NAME% followed by a backslash path: a name without backslash, then
\* a rest that starts with a backslash and holds no '%' and no quote
EnvVarPath(t) ==
    LET parts == Split(t, "%")
    IN  /\ Len(parts) = 3
        /\ parts[1] = ""
        /\ parts[2] # ""
        /\ ~Contains(parts[2], BS)
        /\ ~Contains(parts[2], QUOTE)
        /\ HasPrefix(parts[3], BS)
        /\ ~Contains(parts[3], QUOTE)

C19_UpdateIsAtomic ==
    (phase \in UpdPhases /\ ret.op = "ShouldConvert") =>
        /\ ret.seen \in {arg.old.excludeRegexps,
                         NewPathConverter(arg.patterns).excludeRegexps}
        /\ ret.value \in {ShouldConvert(arg.old, arg.text),
                          ShouldConvert(NewPathConverter(arg.patterns), arg.text)}

\* the expressions of the patterns that compile, in the order of the list
CompiledInOrder(patterns) ==
    SelectSeq([i \in 1..Len(patterns) |-> GlobToRegex(patterns[i])], Compiles)

\* C20: after construction and after an update, the compiled set holds the
\* expression of every pattern that compiles, in the order of the list,
\* whatever pattern failed before or after it, and each of them excludes
\* the texts it matches.
C20_FailingPatternSkipped ==
    /\ phase = "upd_call" =>
           pc.excludeRegexps = CompiledInOrder(pc.excludePatterns)
    /\ phase = "upd_done" =>
           /\ pc.excludePatterns = arg.patterns
           /\ pc.excludeRegexps = CompiledInOrder(arg.patterns)
    /\ (/\ phase = "upd_done"
        /\ ret.op = "ShouldConvert"
        /\ ret.during = "upd_done"
        /\ \E i \in 1..Len(arg.patterns) :
               /\ Compiles(GlobToRegex(arg.patterns[i]))
               /\ MatchString(GlobToRegex(arg.patterns[i]), arg.text)) =>
           ret.value = FALSE

\* after an update to a list whose second pattern does not compile, the
\* third pattern excludes a text
C20_Witness ==
    /\ phase = "upd_done"
    /\ arg.old.excludePatterns = <<>>
    /\ arg.patterns = <<"*.tmp", "(", "C:*">>
    /\ pc.excludeRegexps = <<"^.*\\.tmp$", "^C:.*$">>
    /\ arg.text = "C:\\a"
    /\ ret.op = "ShouldConvert"
    /\ ret.during = "upd_done"
    /\ ret.value = FALSE

(***************************************************************************)
(* Properties of the quote handling of the converter (SpecPC)              *)
(***************************************************************************)
\* the content of a text when one pair of wrapping quotes is taken off
QuoteTrim(t) == IF Wrapped(t) THEN Interior(t) ELSE t

\* C29: ShouldConvert and Convert take quotes off only a text that both
\* starts and ends with a double quote, and then one at each end; every
\* other quote stays in the content that is checked and converted.
C29_QuoteTrimOnePair ==
    phase = "pc_done" =>
        LET content == QuoteTrim(arg)
            slashed == ReplaceAll(content, BS, "/")
        IN  /\ ret.op = "ShouldConvert" =>
                   ret.value = (/\ arg # ""
                                /\ Contains(content, BS)
                                /\ ~isExcluded(pc, content))
            /\ ret.op = "Convert" =>
                   ret.value = IF slashed = content THEN arg
                               ELSE IF Wrapped(arg)
                               THEN QUOTE \o slashed \o QUOTE
                               ELSE slashed

\* C30: the text Convert returns is as long as its argument and equals it
\* at every place, except that a backslash has become a forward slash.
C30_ConvertOnlyBackslashes ==
    (phase = "pc_done" /\ ret.op = "Convert") =>
        /\ Len(ret.value) = Len(arg)
        /\ \A i \in 1..Len(arg) :
               Ch(ret.value, i) = IF Ch(arg, i) = BS THEN "/" ELSE Ch(arg, i)

(***************************************************************************)
(* Properties of Run (SpecRun, FairSpecRun)                                *)
(***************************************************************************)
\* C21: when the listener cannot be set up, Run does not fail: it runs the
\* polling loop, returns nil when that loop ends, and calls runWithPolling
\* at most once.
C21_InitFailureFallsBack ==
    /\ hist.initFailed =>
           \/ phase \in PollPhases
           \/ phase = "run_exited" /\ ret.op = "Run" /\ ret.err = "nil"
    /\ hist.fallbacks <= 1

\* Run has returned nil after a failed set-up and a polling loop that ran
C21_Witness ==
    /\ phase = "run_exited"
    /\ hist.initFailed
    /\ hist.fallbacks = 1
    /\ hist.ticked
    /\ ret.op = "Run"
    /\ ret.err = "nil"

\* C22: the polling loop runs only when the listener could not be set up,
\* never after the event loop has begun a cycle, and never while the
\* listener or the helper goroutine of the event mode is still there.
C22_ModesExclusive ==
    phase \in PollPhases =>
        /\ hist.initFailed
        /\ ~hist.woken
        /\ ~hist.listener
        /\ hist.helper # "waiting"

\* C23: in both loops at most one cycle is in flight.
C23_OneCycleAtATime ==
    hist.inflight <= 1

\* a cycle is in flight in the event loop while another wake-up waits
C23_Witness ==
    /\ phase = "run_cycle_ev"
    /\ hist.inflight = 1
    /\ pending > 0

\* C24: once a signal has been delivered or the context cancelled, the
\* loop that is running exits in the end, and it exits only between cycles.
C24_ShutdownExits ==
    /\ [](phase = "run_exited" => hist.inflight = 0)
    /\ (hist.sigDelivered \/ hist.cancelled) ~> (phase = "run_exited")

(***************************************************************************)
(* Properties of the logger and of the configuration (SpecUtil)            *)
(***************************************************************************)
\* the level a name stands for when letter case is ignored
LevelOfName(name) ==
    IF \E v \in CaseVariants("debug") : name = v THEN "DEBUG"
    ELSE IF \E v \in CaseVariants("warn") \cup CaseVariants("warning") : name = v
    THEN "WARN"
    ELSE IF \E v \in CaseVariants("error") : name = v THEN "ERROR"
    ELSE "INFO"

\* C26: parseLogLevel gives DEBUG for debug, INFO for info, WARN for warn
\* and warning, ERROR for error, in any letter case, and INFO for every
\* other name, the empty one included; NewLogger gives a logger of that
\* level.
C26_ParseLogLevel ==
    /\ ret.op = "parseLogLevel" => ret.value = LevelOfName(arg)
    /\ ret.op = "NewLogger" => ret.value.level = LevelOfName(arg)

\* a logger made from a name in mixed case has the level of that name
C26_Witness ==
    /\ ret.op = "NewLogger"
    /\ arg = "WaRnInG"
    /\ ret.value.level = "WARN"

\* C27: ShortenText returns a text of at most 50 bytes as it is, and of a
\* longer text the first 20 bytes, three dots and the last 20 bytes, 43
\* bytes in all.
C27_ShortenText ==
    ret.op = "ShortenText" =>
        IF Len(arg) <= 50 THEN ret.value = arg
        ELSE /\ Len(ret.value) = 43
             /\ \A i \in 1..20 : Ch(ret.value, i) = Ch(arg, i)
             /\ SubSeq(ret.value, 21, 23) = "..."
             /\ \A i \in 1..20 : Ch(ret.value, 23 + i) = Ch(arg, Len(arg) - 20 + i)

\* a text of 51 bytes has been shortened
C27_Witness ==
    /\ ret.op = "ShortenText"
    /\ Len(arg) = 51
    /\ Len(ret.value) = 43

\* C28: DefaultConfig returns auto-convert and notifications switched on, a
\* poll interval of 100 ms, a mutex name that is not empty, and the five
\* exclude patterns http://*, https://*, mailto:*, ftp://*, file://* in
\* this order.
C28_DefaultConfig ==
    ret.op = "DefaultConfig" =>
        /\ ret.value.AutoConvert
        /\ ret.value.ShowNotifications
        /\ ret.value.PollInterval = 100
        /\ ret.value.MutexName # ""
        /\ ret.value.ExcludePatterns =
               <<"http://*", "https://*", "mailto:*", "ftp://*", "file://*">>

(***************************************************************************)
(* Further properties of the converter (SpecPC, SpecUpd)                   *)
(***************************************************************************)
\* C31: ShouldConvert is true exactly when the content, the text with the
\* quotes at its ends taken off, holds a backslash and is not excluded; the
\* drive-letter test and the UNC test never change the result.
C31_ShapeCheckNeverRejects ==
    (phase = "pc_done" /\ ret.op = "ShouldConvert") =>
        LET content == Trim(arg, {QUOTE})
        IN  ret.value = (Contains(content, BS) /\ ~isExcluded(pc, content))

\* ShouldConvert has accepted a text of two characters, which has neither
\* the drive-letter shape nor the UNC prefix
C31_Witness ==
    /\ phase = "pc_done"
    /\ ret.op = "ShouldConvert"
    /\ arg = "C\\"
    /\ ~DriveShape(arg)
    /\ ~HasPrefix(arg, "\\\\")
    /\ pc.excludePatterns = DefaultExcludePatterns
    /\ ret.value = TRUE

\* a pattern of the list compiles and its expression matches the text
MatchedByList(patterns, t) ==
    \E i \in 1..Len(patterns) :
        /\ Compiles(GlobToRegex(patterns[i]))
        /\ MatchString(GlobToRegex(patterns[i]), t)

\* C32: when UpdateExcludePatterns(P) has returned, the user patterns
\* exclude exactly the texts matched by a pattern of P that compiles,
\* ShouldConvert answers as a converter built from P alone, and the
\* compiled set is no longer than P, also after a second update.
C32_UpdateReplacesSet ==
    phase = "upd_done" =>
        /\ Len(pc.excludeRegexps) <= Len(arg.patterns)
        /\ \A t \in UpdTexts :
               /\ MatchesUserPattern(pc, t) <=> MatchedByList(arg.patterns, t)
               /\ ShouldConvert(pc, t) =
                      ShouldConvert(NewPathConverter(arg.patterns), t)
        /\ (ret.op = "ShouldConvert" /\ ret.during = "upd_done") =>
               ret.value = ShouldConvert(NewPathConverter(arg.patterns), arg.text)

\* after a second update, from a list that excluded the text to the empty
\* list, ShouldConvert accepts the text
C32_Witness ==
    /\ phase = "upd_done"
    /\ hist.updates = 2
    /\ arg.old.excludePatterns = <<"*.tmp", "(", "C:*">>
    /\ arg.patterns = <<>>
    /\ arg.text = "C:\\a"
    /\ MatchedByList(arg.old.excludePatterns, arg.text)
    /\ ret.op = "ShouldConvert"
    /\ ret.during = "upd_done"
    /\ ret.value = TRUE

(***************************************************************************)
(* Further properties of the loop and of the clipboard calls               *)
(***************************************************************************)
\* C33: with auto-convert switched off no cycle, in either mode and for no
\* clipboard content, writes to the clipboard or changes the stored
\* fingerprint.
C33_DisabledCycleIsInert ==
    (ret.op = "cycle" /\ ~cfg.AutoConvert) =>
        /\ ret.post = ret.pre
        /\ ret.out \notin {"written", "seterr"}
        /\ ret.postHash = ret.preHash

\* the attempts of a call at which OpenClipboard succeeded
OpenedAt(env, opens) == {i \in 1..opens : env.open[i]}

\* C34: when GetText or SetText returns, on whatever path, CloseClipboard
\* has been called once for each OpenClipboard that succeeded and not at
\* all when every OpenClipboard failed: the clipboard is not left open.
C34_ClipboardNeverLeftOpen ==
    phase = "io_done" =>
        /\ ret.closes = Cardinality(OpenedAt(arg.env, ret.opens))
        /\ ret.err = "open" => ret.closes = 0
        /\ ret.err # "open" => ret.closes = 1

\* SetText has failed at SetClipboardData after a failed and a successful
\* open, and has closed the clipboard once
C34_Witness ==
    /\ phase = "io_done"
    /\ ret.op = "SetText"
    /\ ret.err = "set"
    /\ ret.opens = 2
    /\ ~arg.env.open[1]
    /\ ret.closes = 1

(***************************************************************************)
(* Properties of the single instance (SpecSingle)                          *)
(***************************************************************************)
\* the live processes that hold the singleton
Holders == {p \in Procs : hist[p].at # "exited" /\ IsSingleton(hist[p])}

\* C35: at most one live process holds the singleton; InitSingleton
\* returns false to a process while another one holds it; and a process
\* that got false returns an error from RunApplication and starts no cycle.
C35_SingleInstance ==
    /\ Cardinality(Holders) <= 1
    /\ (ret.op = "InitSingleton" /\ ret.held) => ~ret.value
    /\ \A p \in Procs :
           /\ hist[p].at = "refused" =>
                  hist[p].err = "already running" /\ ~hist[p].cycles
           /\ hist[p].cycles => hist[p].at \notin {"start", "refused"}

\* a second process has been refused while the first, which has started its
\* loop, holds the singleton
C35_Witness ==
    /\ ret.op = "InitSingleton"
    /\ ret.held
    /\ ~ret.value
    /\ hist[ret.proc].at = "refused"
    /\ \E q \in Procs \ {ret.proc} : q \in Holders /\ hist[q].cycles

IsHex16(h) ==
    /\ Len(h) = 16
    /\ \A i \in 1..16 : Contains(HexDigits, Ch(h, i))

\* C37: QuickHash of a text is always the same string of 16 hexadecimal
\* digits, for the empty text too, so it differs from the initial stored
\* fingerprint, the empty string: the first cycle that reads the clipboard
\* while the stored fingerprint is still the initial one finds a change,
\* whatever the text is.
C37_FirstObservationIsChange ==
    /\ QuickHash("") = "cbf29ce484222325"
    /\ clip.has => IsHex16(QuickHash(clip.text)) /\ QuickHash(clip.text) # ""
    /\ (ret.op = "cycle" /\ ret.hcCalled /\ ret.hcOk) =>
           /\ ret.hcChanged => ret.hcLast = QuickHash(ret.pre.text)
           /\ ret.preHash = "" => ret.hcChanged
    /\ (ret.op = "cycle" /\ ret.mode = "event" /\ ret.preHash = "") =>
           ret.out # "unchanged"

\* the first tick after startup has read the empty text and reported a
\* change
C37_Witness ==
    /\ ret.op = "cycle"
    /\ ret.mode = "polling"
    /\ ret.preHash = ""
    /\ ret.pre = TextClip("")
    /\ ret.hcOk
    /\ ret.hcChanged
    /\ ret.hcLast = "cbf29ce484222325"

====
